---- MODULE Spec2Model ----
(***************************************************************************)
(* The DGL example notebooks of sagemaker-python-sdk/ as a state machine:  *)
(* a notebook is run top to bottom, one code cell at a time, against the   *)
(* external services (identity, image registry, storage, training          *)
(* platform).  A text is a sequence of text chunks; the format templates   *)
(* are sequences of single characters.                                     *)
(***************************************************************************)
EXTENDS Integers, Sequences, FiniteSets, TLC

None == "None"

(***************************************************************************)
(* Texts                                                                   *)
(***************************************************************************)

\* '{}.dkr.ecr.{}.amazonaws.com/{}:{}'
ImageTemplateTag ==
  <<"{", "}", ".", "d", "k", "r", ".", "e", "c", "r", ".", "{", "}", ".", "a", "m", "a", "z", "o", "n", "a", "w", "s", ".", "c", "o", "m", "/", "{", "}", ":", "{", "}">>

\* '{}.dkr.ecr.{}.amazonaws.com/{}:latest'
ImageTemplateLatest ==
  <<"{", "}", ".", "d", "k", "r", ".", "e", "c", "r", ".", "{", "}", ".", "a", "m", "a", "z", "o", "n", "a", "w", "s", ".", "c", "o", "m", "/", "{", "}", ":", "l", "a", "t", "e", "s", "t">>

\* str.format with auto-numbered fields: the template is scanned left to
\* right, every '{}' is replaced by the next positional argument, any other
\* character is copied.
RECURSIVE FormatFrom(_, _, _, _)
FormatFrom(tmpl, i, args, k) ==
  IF i > Len(tmpl) THEN <<>>
  ELSE IF tmpl[i] = "{" /\ i < Len(tmpl) /\ tmpl[i + 1] = "}"
       THEN args[k] \o FormatFrom(tmpl, i + 2, args, k + 1)
       ELSE <<tmpl[i]>> \o FormatFrom(tmpl, i + 1, args, k)

Format(tmpl, args) == FormatFrom(tmpl, 1, args, 1)

(***************************************************************************)
(* The notebooks and their code cells, in file order                       *)
(***************************************************************************)

Notebooks ==
  {"mxnet_gcn", "pytorch_gcn", "mxnet_gcmc", "kge_mxnet", "pytorch-gcn-tox21",
   "pytorch_gcn_hypertune", "pytorch-gcn-tox21-hypertune"}

TrainingNotebooks ==
  {"mxnet_gcn", "pytorch_gcn", "mxnet_gcmc", "kge_mxnet", "pytorch-gcn-tox21"}

TuningNotebooks == {"pytorch_gcn_hypertune", "pytorch-gcn-tox21-hypertune"}

BuildNotebooks == {"mxnet_gcmc", "kge_mxnet", "pytorch-gcn-tox21"}

\* The cells with the fit cell of mxnet_gcn placed before its estimator cell.
CellsFitFirst(n) ==
  CASE n = "mxnet_gcn" -> <<"shell_line", "setup", "shell_line", "fit", "estimator">>
    [] n = "pytorch_gcn" -> <<"setup", "shell_line", "estimator", "fit">>
    [] n = "mxnet_gcmc" ->
         <<"shell_line", "setup", "shell_line", "build", "estimator", "fit">>
    [] n = "kge_mxnet" -> <<"setup", "build", "estimator", "fit", "empty">>
    [] n = "pytorch-gcn-tox21" ->
         <<"setup", "shell_line", "build", "estimator", "fit">>
    [] n = "pytorch_gcn_hypertune" ->
         <<"setup", "imports", "shell_line", "estimator", "ranges", "metric",
           "tuner", "fit", "status">>
    [] n = "pytorch-gcn-tox21-hypertune" ->
         <<"setup", "shell_line", "estimator", "ranges", "metric", "tuner",
           "fit", "status">>
    [] OTHER -> <<>>

Cells(n) ==
  CASE n = "mxnet_gcn" -> <<"shell_line", "setup", "shell_line", "estimator", "fit">>
    [] n = "pytorch_gcn" -> <<"setup", "shell_line", "estimator", "fit">>
    [] n = "mxnet_gcmc" ->
         <<"shell_line", "setup", "shell_line", "build", "estimator", "fit">>
    [] n = "kge_mxnet" -> <<"setup", "build", "estimator", "fit", "empty">>
    [] n = "pytorch-gcn-tox21" ->
         <<"setup", "shell_line", "build", "estimator", "fit">>
    [] n = "pytorch_gcn_hypertune" ->
         <<"setup", "imports", "shell_line", "estimator", "ranges", "metric",
           "tuner", "fit", "status">>
    [] n = "pytorch-gcn-tox21-hypertune" ->
         <<"setup", "shell_line", "estimator", "ranges", "metric", "tuner",
           "fit", "status">>
    [] OTHER -> <<>>

\* docker_name of the estimator cell
DockerName(n) ==
  CASE n = "mxnet_gcn" -> <<"beta-mxnet-training">>
    [] n \in {"pytorch_gcn", "pytorch_gcn_hypertune"} -> <<"beta-pytorch-training">>
    [] n = "mxnet_gcmc" -> <<"sagemaker-dgl-gcmc">>
    [] n = "kge_mxnet" -> <<"sagemaker-dgl-kge-mxnet">>
    [] OTHER -> <<"sagemaker-dgl-pytorch-gcn-tox21">>

\* docker_tag of the estimator cell; the notebooks that give none write
\* ':latest' into the template
HasDockerTag(n) == n \in {"mxnet_gcn", "pytorch_gcn", "pytorch_gcn_hypertune"}

\* docker_tag with the tuning notebook left on an older build.
DockerTagDrift(n) ==
  IF n = "mxnet_gcn" THEN <<"1.6.0-py3-gpu-build">>
  ELSE IF n = "pytorch_gcn_hypertune" THEN <<"1.2.0-py3-gpu-build">>
  ELSE <<"1.3.0-py3-gpu-build">>

DockerTag(n) ==
  IF n = "mxnet_gcn" THEN <<"1.6.0-py3-gpu-build">> ELSE <<"1.3.0-py3-gpu-build">>

\* The swapped variant of the image expression: region and account exchanged.
ImageSwapped(n, account, region) ==
  IF HasDockerTag(n)
  THEN Format(ImageTemplateTag, <<region, account, DockerName(n), DockerTag(n)>>)
  ELSE Format(ImageTemplateLatest, <<region, account, DockerName(n)>>)

\* image = '...'.format(account, region, docker_name[, docker_tag])
Image(n, account, region) ==
  IF HasDockerTag(n)
  THEN Format(ImageTemplateTag, <<account, region, DockerName(n), DockerTag(n)>>)
  ELSE Format(ImageTemplateLatest, <<account, region, DockerName(n)>>)

(***************************************************************************)
(* Hyperparameters: a value keeps its Python type beside its text          *)
(***************************************************************************)

HV(t, v) == [t |-> t, v |-> v]

NoParams == [key \in {} |-> HV("str", "")]

\* params[key] = value on a dict
SetItem(m, key, value) ==
  [x \in DOMAIN m \cup {key} |-> IF x = key THEN value ELSE m[x]]

\* The assignments to params (or the dict display) of the estimator cell,
\* in file order.
ParamAssignments(n) ==
  CASE n \in {"mxnet_gcn", "pytorch_gcn", "pytorch_gcn_hypertune"} ->
         << <<"dataset", HV("str", "cora")>> >>
    [] n = "mxnet_gcmc" ->
         << <<"data_name", HV("str", "ml-1m")>>,
            <<"save_dir", HV("str", "/opt/ml/model/")>> >>
    [] n = "kge_mxnet" ->
         << <<"dataset", HV("str", "FB15k")>>,
            <<"model", HV("str", "DistMult")>>,
            <<"batch_size", HV("int", "1024")>>,
            <<"neg_sample_size", HV("int", "256")>>,
            <<"hidden_dim", HV("int", "2000")>>,
            <<"gamma", HV("float", "500.0")>>,
            <<"lr", HV("float", "0.1")>>,
            <<"max_step", HV("int", "100000")>>,
            <<"batch_size_eval", HV("int", "16")>>,
            <<"valid", HV("bool", "True")>>,
            <<"test", HV("bool", "True")>>,
            <<"neg_adversarial_sampling", HV("bool", "True")>> >>
    [] OTHER -> << <<"entrypoint", HV("str", "main.py")>> >>

RECURSIVE Assign(_, _, _)
Assign(m, as, i) ==
  IF i > Len(as) THEN m ELSE Assign(SetItem(m, as[i][1], as[i][2]), as, i + 1)

\* The mapping with every value turned into its text, as str(value) would.
Stringified(m) == [x \in DOMAIN m |-> HV("str", m[x].v)]

\* params = {}; params[...] = ... (tox21: the dict display)
Params(n) == Assign(NoParams, ParamAssignments(n), 1)

\* entry_point of the estimator; the generic Estimator of the tox21
\* notebooks takes none.
EntryPoint(n) ==
  CASE n = "mxnet_gcn" -> "mxnet_gcn.py"
    [] n \in {"pytorch_gcn", "pytorch_gcn_hypertune"} -> "pytorch_gcn.py"
    [] n \in {"mxnet_gcmc", "kge_mxnet"} -> "train.py"
    [] OTHER -> None

SourceDir(n) ==
  CASE n = "mxnet_gcmc" -> "../dgl_gcmc"
    [] n = "kge_mxnet" -> "./"
    [] OTHER -> None

\* The notebooks whose estimator cell calls sess.upload_data, and what they
\* upload.
Uploads(n) ==
  n \in {"pytorch-gcn-tox21", "pytorch_gcn_hypertune", "pytorch-gcn-tox21-hypertune"}

UploadPath(n) == IF n = "pytorch_gcn_hypertune" THEN "./" ELSE "main.py"

\* sess.default_bucket()
DefaultBucket(account, region) == <<"sagemaker-">> \o region \o <<"-">> \o account

\* sess.upload_data(path, bucket=bucket, key_prefix='customcode'): the
\* location of the uploaded file, or the prefix for a directory.
UploadLocation(path, bucket) ==
  IF path = "./"
  THEN <<"s3://">> \o bucket \o <<"/", "customcode">>
  ELSE <<"s3://">> \o bucket \o <<"/", "customcode", "/", path>>

train_instance_count == 1

NoEstimator ==
  [entry_point |-> None, source_dir |-> None, train_instance_count |-> 0,
   train_instance_type |-> None, image_name |-> <<>>, hyperparameters |-> NoParams]

\* The estimator that keeps the text of every hyperparameter value in place
\* of the value.
MakeEstimatorStringified(n, img, hp) ==
  [entry_point |-> EntryPoint(n), source_dir |-> SourceDir(n),
   train_instance_count |-> train_instance_count,
   train_instance_type |-> "ml.p3.2xlarge",
   image_name |-> img, hyperparameters |-> Stringified(hp)]

\* MXNet(...), PyTorch(...), sagemaker.estimator.Estimator(...)
MakeEstimator(n, img, hp) ==
  [entry_point |-> EntryPoint(n), source_dir |-> SourceDir(n),
   train_instance_count |-> train_instance_count,
   train_instance_type |-> "ml.p3.2xlarge",
   image_name |-> img, hyperparameters |-> hp]

(***************************************************************************)
(* Tuning configuration                                                    *)
(***************************************************************************)

Range(kind, lo, hi) == [kind |-> kind, lo |-> lo, hi |-> hi]

NoRanges == [name \in {} |-> Range("", "", "")]

\* hyperparameter_ranges / hyper_ranges
HyperparameterRanges(n) ==
  IF n = "pytorch_gcn_hypertune"
  THEN [name \in {"lr", "n-epochs"} |->
          IF name = "lr" THEN Range("Continuous", "0.001", "0.01")
          ELSE Range("Integer", "100", "200")]
  ELSE [name \in {"lr", "patience", "n_hidden"} |->
          CASE name = "lr" -> Range("Continuous", "1e-4", "1e-2")
            [] name = "patience" -> Range("Integer", "5", "30")
            [] OTHER -> Range("Categorical", "32,64,128", "")]

\* A metric regex of the shape  <literal>(<class>+)<literal> : the text
\* before the group, the characters of the group's class, the text after.
Digits == {"0", "1", "2", "3", "4", "5", "6", "7", "8", "9"}

Regex(before, class, after) == [before |-> before, class |-> class, after |-> after]

NoMetric == [Name |-> None, Regex |-> Regex(<<>>, {}, <<>>)]

\* 'Test Accuracy ([0-9\.]+)%' with the class reduced to the digits.
TestAccuracyRegexDigitsOnly ==
  Regex(<<"T", "e", "s", "t", " ", "A", "c", "c", "u", "r", "a", "c", "y", " ">>,
        Digits, <<"%">>)

\* 'Test Accuracy ([0-9\.]+)%'
TestAccuracyRegex ==
  Regex(<<"T", "e", "s", "t", " ", "A", "c", "c", "u", "r", "a", "c", "y", " ">>,
        Digits \cup {"."}, <<"%">>)

\* 'Best validation score ([0-9\.]+)'
BestValidationRegex ==
  Regex(<<"B", "e", "s", "t", " ", "v", "a", "l", "i", "d", "a", "t", "i", "o", "n", " ", "s", "c", "o", "r", "e", " ">>,
        Digits \cup {"."}, <<>>)

ObjectiveMetricName(n) ==
  IF n = "pytorch_gcn_hypertune" THEN "Validation-accuracy" ELSE "Validation_roc_auc"

\* metric_definitions (one entry)
MetricDefinitions(n) ==
  IF n = "pytorch_gcn_hypertune"
  THEN [Name |-> "Validation-accuracy", Regex |-> TestAccuracyRegex]
  ELSE [Name |-> ObjectiveMetricName(n), Regex |-> BestValidationRegex]

(***************************************************************************)
(* Metric extraction: the platform searches each log line with the regex   *)
(* of the metric definition, as re.search does.                            *)
(***************************************************************************)

NoMatch == <<>>

StartsWith(line, p, text) ==
  /\ p + Len(text) - 1 <= Len(line)
  /\ \A i \in 1..Len(text) : line[p + i - 1] = text[i]

\* Length of the longest run of class characters of line from position q.
RECURSIVE RunLength(_, _, _)
RunLength(line, q, class) ==
  IF q <= Len(line) /\ line[q] \in class THEN 1 + RunLength(line, q + 1, class) ELSE 0

\* The group '(<class>+)' is greedy: it takes the longest run and gives
\* characters back one at a time until the text after the group matches.
RECURSIVE Backtrack(_, _, _, _)
Backtrack(line, q, n, after) ==
  IF n = 0 THEN NoMatch
  ELSE IF StartsWith(line, q + n, after) THEN SubSeq(line, q, q + n - 1)
       ELSE Backtrack(line, q, n - 1, after)

\* The group's text when the regex matches line at position p, else NoMatch.
MatchAt(re, line, p) ==
  IF StartsWith(line, p, re.before)
  THEN Backtrack(line, p + Len(re.before),
                 RunLength(line, p + Len(re.before), re.class), re.after)
  ELSE NoMatch

\* The leftmost match.
RECURSIVE SearchFrom(_, _, _)
SearchFrom(re, line, p) ==
  IF p > Len(line) THEN NoMatch
  ELSE IF MatchAt(re, line, p) # NoMatch THEN MatchAt(re, line, p)
       ELSE SearchFrom(re, line, p + 1)

Search(re, line) == SearchFrom(re, line, 1)

(***************************************************************************)
(* The log lines of a training job: free text around a report of the       *)
(* metric, 'Test Accuracy <number>%' or 'Best validation score <number>'.  *)
(***************************************************************************)

MaxNumLen == 3

LogDigits == {<<"1">>, <<"9">>}

\* Digit strings of exactly n digits.
RECURSIVE DigitStrings(_)
DigitStrings(n) ==
  IF n = 0 THEN {<<>>}
  ELSE {d \o s : d \in LogDigits, s \in DigitStrings(n - 1)}

\* Decimal numbers of at most MaxNumLen characters: digits, or digits '.'
\* digits; and the number of the documented example line.
Numbers ==
  UNION {DigitStrings(n) : n \in 1..MaxNumLen}
  \cup UNION {{a \o <<".">> \o b : a \in DigitStrings(i), b \in DigitStrings(n - 1 - i)} :
              <<n, i>> \in {<<n, i>> \in (3..MaxNumLen) \X (1..MaxNumLen) : i <= n - 2}}
  \cup {<<"9", "1", ".", "2">>}

TestAccuracyText == <<"T", "e", "s", "t", " ", "A", "c", "c", "u", "r", "a", "c", "y", " ">>

BestValidationText ==
  <<"B", "e", "s", "t", " ", "v", "a", "l", "i", "d", "a", "t", "i", "o", "n", " ", "s", "c", "o", "r", "e", " ">>

\* The report of number num in the logs of notebook n's training script.
Report(n, num) ==
  IF n = "pytorch_gcn_hypertune" THEN TestAccuracyText \o num \o <<"%">>
  ELSE BestValidationText \o num

\* Text before a report: nothing, other text, the start of a report, a
\* number without its report's end, an earlier report.
Before(n) ==
  {<<>>, <<"E", "p", "o", "c", "h", " ", "3", " ">>, <<"T", "e", "s", "t", " ">>,
   TestAccuracyText \o <<"7", " ">>, Report(n, <<"7">>) \o <<" ">>}

After == {<<>>, <<" ", "d", "o", "n", "e">>}

LogLines(n) ==
  {b \o Report(n, num) \o a : b \in Before(n), num \in Numbers, a \in After}
  \cup {<<>>, <<"E", "p", "o", "c", "h", " ", "3">>, TestAccuracyText, BestValidationText}

max_jobs == 6

max_parallel_jobs == 2

NoTuner ==
  [objective_metric_name |-> None, hyperparameter_ranges |-> NoRanges,
   metric_definitions |-> NoMetric, max_jobs |-> 0, max_parallel_jobs |-> 0,
   objective_type |-> None]

\* The tuner built with the two limits exchanged.
MakeTunerSwapped(objective, ranges, metrics) ==
  [objective_metric_name |-> objective, hyperparameter_ranges |-> ranges,
   metric_definitions |-> metrics, max_jobs |-> max_parallel_jobs,
   max_parallel_jobs |-> max_jobs, objective_type |-> "Maximize"]

\* The tuner built with each limit one higher.
MakeTunerLarger(objective, ranges, metrics) ==
  [objective_metric_name |-> objective, hyperparameter_ranges |-> ranges,
   metric_definitions |-> metrics, max_jobs |-> max_jobs + 1,
   max_parallel_jobs |-> max_parallel_jobs + 1, objective_type |-> "Maximize"]

\* The tuner built as if objective_type='Minimize' were passed.
MakeTunerMinimize(objective, ranges, metrics) ==
  [objective_metric_name |-> objective, hyperparameter_ranges |-> ranges,
   metric_definitions |-> metrics, max_jobs |-> max_jobs,
   max_parallel_jobs |-> max_parallel_jobs, objective_type |-> "Minimize"]

\* HyperparameterTuner(estimator, objective, ranges, metric_definitions,
\* max_jobs=6, max_parallel_jobs=2); no objective_type is given and the
\* notebooks' text states the default, 'Maximize'.
MakeTuner(objective, ranges, metrics) ==
  [objective_metric_name |-> objective, hyperparameter_ranges |-> ranges,
   metric_definitions |-> metrics, max_jobs |-> max_jobs,
   max_parallel_jobs |-> max_parallel_jobs, objective_type |-> "Maximize"]

(***************************************************************************)
(* State                                                                   *)
(***************************************************************************)

VARIABLES
  account,      \* the caller identity's account id
  sessRegion,   \* sess.boto_session.region_name
  cliRegion,    \* what 'aws configure get region' prints (empty: not set)
  repos,        \* registry: the repositories, <<region, name>>
  registry,     \* registry: the image references that can be pulled
  objects,      \* storage: the uploaded locations
  localImages,  \* docker on the notebook instance: local image names
  logins,       \* docker on the notebook instance: regions logged in to
  pushed,       \* registry: the references pushed in this session
  todo,         \* the notebooks still to be opened in this session
  nb,           \* the open notebook
  pc,           \* index of the next code cell of nb
  phase,        \* idle | ready | shell | waiting | error | done
  k,            \* the kernel's names and their values
  sh,           \* the running %%sh script: position, variables, $?
  submissions,  \* fit calls that reached the platform in this run
  request,      \* what the last fit call submitted
  job,          \* status of the submitted training job
  campaign,     \* the submitted tuning job
  statusRead,   \* what the status cell displayed
  failed,       \* the call whose exception ended the run
  logLine,      \* a log line of a training job of the campaign
  metric        \* the line the metric regex was run on, and its group

vars ==
  <<account, sessRegion, cliRegion, repos, registry, objects, localImages,
    logins, pushed, todo, nb, pc, phase, k, sh, submissions, request, job, campaign,
    statusRead, failed, logLine, metric>>

envVars == <<account, sessRegion, cliRegion>>

dockerVars == <<repos, registry, localImages, logins, pushed>>

platformVars == <<submissions, request, job, campaign, statusRead, logLine, metric>>

Accounts == {<<"111122223333">>, <<"4444", "5555", "6666">>}

UsEast2 == <<"us-east-2">>

Regions == {UsEast2, <<"us-west-2">>}

EmptyKernel ==
  [names |-> {}, code_location |-> <<>>, image |-> <<>>, params |-> NoParams,
   estimator |-> NoEstimator, hyperparameter_ranges |-> NoRanges,
   metric_definitions |-> NoMetric, objective_metric_name |-> None,
   tuner |-> NoTuner]

\* create, build: what became of create-repository and of docker build in
\* this run of the script.
NoShell ==
  [pc |-> 0, account |-> <<>>, region |-> <<>>, docker_name |-> <<>>,
   fullname |-> <<>>, status |-> 0, create |-> "not run", build |-> "not run"]

NoScrape == [line |-> <<>>, group |-> NoMatch]

NoInputs == [channel \in {} |-> <<>>]

NoRequest == [kind |-> None, estimator |-> NoEstimator, inputs |-> NoInputs, tuner |-> NoTuner]

NoCampaign == [status |-> None, started |-> 0, running |-> 0]

SeqRange(s) == {s[i] : i \in DOMAIN s}

\* A session opens one notebook, or one notebook after another.
OneNotebook == {<<n>> : n \in Notebooks}

TwoNotebooks == {<<a, b>> : a \in Notebooks, b \in Notebooks}

InitWith(playlists) ==
  /\ account \in Accounts
  /\ sessRegion \in Regions
  /\ cliRegion \in Regions \cup {<<>>}
  /\ todo \in playlists
  /\ \E present \in SUBSET SeqRange(todo) :
       /\ registry = {Image(n, account, sessRegion) : n \in present}
       /\ repos = {<<sessRegion, DockerName(n)>> : n \in present}
  /\ objects = {}
  /\ localImages = {}
  /\ logins = {}
  /\ pushed = {}
  /\ pc = 0
  /\ phase = "idle"
  /\ k = EmptyKernel
  /\ sh = NoShell
  /\ submissions = 0
  /\ request = NoRequest
  /\ job = None
  /\ campaign = NoCampaign
  /\ statusRead = None
  /\ failed = None
  /\ metric = NoScrape

Init ==
  /\ InitWith(OneNotebook)
  /\ nb = None
  /\ logLine = <<>>

InitSession ==
  /\ InitWith(OneNotebook \cup TwoNotebooks)
  /\ nb = None
  /\ logLine = <<>>

CurCell == IF phase \in {"ready", "shell", "waiting"} THEN Cells(nb)[pc] ELSE None

\* The cell has run: the next cell is up, or the notebook is through.
Advance ==
  /\ pc' = pc + 1
  /\ phase' = IF pc + 1 > Len(Cells(nb)) THEN "done" ELSE "ready"

\* An exception leaves the cell: the traceback is the cell's output and the
\* run stops there.
Raise(call) ==
  /\ phase' = "error"
  /\ failed' = call
  /\ pc' = pc

\* Opening a notebook starts a fresh kernel.
OpenNotebook ==
  /\ phase \in {"idle", "error", "done"}
  /\ todo # <<>>
  /\ job # "InProgress"
  /\ campaign.status # "InProgress"
  /\ nb' = Head(todo)
  /\ todo' = Tail(todo)
  /\ pc' = 1
  /\ phase' = "ready"
  /\ k' = EmptyKernel
  /\ sh' = NoShell
  /\ submissions' = 0
  /\ request' = NoRequest
  /\ job' = None
  /\ campaign' = NoCampaign
  /\ statusRead' = None
  /\ failed' = None
  /\ UNCHANGED <<envVars, dockerVars, objects, logLine, metric>>

\* '!conda install ...', '!cat ...', imports, the empty cell: a '!' line does
\* not raise on a non-zero exit.
LocalCell ==
  /\ phase = "ready"
  /\ CurCell \in {"shell_line", "imports", "empty"}
  /\ Advance
  /\ UNCHANGED <<envVars, dockerVars, objects, todo, nb, k, sh, platformVars, failed>>

\* sess = sagemaker.Session(); bucket = sess.default_bucket();
\* role = get_execution_role()
SetupCell ==
  /\ phase = "ready"
  /\ CurCell = "setup"
  /\ \/ /\ k' = [k EXCEPT !.names = @ \cup {"sess", "bucket", "role"}]
        /\ Advance
        /\ UNCHANGED failed
     \/ /\ k' = k
        /\ Raise("Session")
     \/ /\ k' = [k EXCEPT !.names = @ \cup {"sess"}]
        /\ Raise("default_bucket")
     \/ /\ k' = [k EXCEPT !.names = @ \cup {"sess", "bucket"}]
        /\ Raise("get_execution_role")
  /\ UNCHANGED <<envVars, dockerVars, objects, todo, nb, sh, platformVars>>

\* The estimator cell: [code_location = sess.upload_data(...)],
\* account = ...get_caller_identity()['Account'], region = ..., image = ...,
\* params = ..., estimator = ...(...)
EstimatorCell ==
  /\ phase = "ready"
  /\ CurCell = "estimator"
  /\ LET loc == UploadLocation(UploadPath(nb), DefaultBucket(account, sessRegion))
         up == IF Uploads(nb)
               THEN [k EXCEPT !.names = @ \cup {"code_location"}, !.code_location = loc]
               ELSE k
         img == Image(nb, account, sessRegion)
         hp == Params(nb)
     IN \/ /\ Uploads(nb)
           /\ Raise("upload_data")
           /\ k' = k
           /\ objects' = objects
        \/ /\ Raise("get_caller_identity")
           /\ k' = up
           /\ objects' = IF Uploads(nb) THEN objects \cup {loc} ELSE objects
        \/ /\ k' = [up EXCEPT !.names = @ \cup {"image", "estimator"}
                                           \cup (IF EntryPoint(nb) # None
                                                 THEN {"params"} ELSE {}),
                              !.image = img,
                              !.params = hp,
                              !.estimator = MakeEstimator(nb, img, hp)]
           /\ objects' = IF Uploads(nb) THEN objects \cup {loc} ELSE objects
           /\ Advance
           /\ UNCHANGED failed
  /\ UNCHANGED <<envVars, dockerVars, todo, nb, sh, platformVars>>

\* hyperparameter_ranges = {...}
RangesCell ==
  /\ phase = "ready"
  /\ CurCell = "ranges"
  /\ k' = [k EXCEPT !.names = @ \cup {"hyperparameter_ranges"},
                    !.hyperparameter_ranges = HyperparameterRanges(nb)]
  /\ Advance
  /\ UNCHANGED <<envVars, dockerVars, objects, todo, nb, sh, platformVars, failed>>

\* objective_metric_name = ...; metric_definitions = [...]
MetricCell ==
  /\ phase = "ready"
  /\ CurCell = "metric"
  /\ k' = [k EXCEPT !.names = @ \cup {"objective_metric_name", "metric_definitions"},
                    !.objective_metric_name = ObjectiveMetricName(nb),
                    !.metric_definitions = MetricDefinitions(nb)]
  /\ Advance
  /\ UNCHANGED <<envVars, dockerVars, objects, todo, nb, sh, platformVars, failed>>

\* tuner = HyperparameterTuner(estimator, objective, ranges, metric_definitions, ...)
TunerCell ==
  /\ phase = "ready"
  /\ CurCell = "tuner"
  /\ k' = [k EXCEPT !.names = @ \cup {"tuner"},
                    !.tuner = MakeTuner(k.objective_metric_name,
                                        k.hyperparameter_ranges,
                                        k.metric_definitions)]
  /\ Advance
  /\ UNCHANGED <<envVars, dockerVars, objects, todo, nb, sh, platformVars, failed>>

\* The inputs argument with the upload prefix written out by hand in place
\* of the location that upload_data returned.
FitInputsPrefix(n, kernel) ==
  IF Uploads(n)
  THEN [channel \in {"training-code"} |->
          UploadLocation("./", DefaultBucket(account, sessRegion))]
  ELSE NoInputs

\* The inputs argument of the fit call: the notebooks that uploaded their
\* code pass it as the channel 'training-code', the others pass nothing.
FitInputs(n, kernel) ==
  IF Uploads(n)
  THEN [channel \in {"training-code"} |-> kernel.code_location]
  ELSE NoInputs

\* The fit cell called with wait=False: the call returns once the job is
\* submitted.
FitSubmitNoWait ==
  /\ phase = "ready"
  /\ CurCell = "fit"
  /\ nb \in TrainingNotebooks
  /\ submissions' = submissions + 1
  /\ request' = [kind |-> "training", estimator |-> k.estimator,
                 inputs |-> FitInputs(nb, k), tuner |-> NoTuner]
  /\ \/ /\ job' = "InProgress"
        /\ Advance
        /\ UNCHANGED failed
     \/ /\ job' = job
        /\ Raise("fit")
  /\ UNCHANGED <<envVars, dockerVars, objects, todo, nb, k, sh, campaign, statusRead,
                 logLine, metric>>

\* The fit cell that submits the training job twice.
FitSubmitTwice ==
  /\ phase = "ready"
  /\ CurCell = "fit"
  /\ nb \in TrainingNotebooks
  /\ submissions' = submissions + 2
  /\ request' = [kind |-> "training", estimator |-> k.estimator,
                 inputs |-> FitInputs(nb, k), tuner |-> NoTuner]
  /\ \/ /\ job' = "InProgress"
        /\ phase' = "waiting"
        /\ UNCHANGED <<pc, failed>>
     \/ /\ job' = job
        /\ Raise("fit")
  /\ UNCHANGED <<envVars, dockerVars, objects, todo, nb, k, sh, campaign, statusRead,
                 logLine, metric>>

\* estimator.fit(...) of a training notebook, first half: the training job is
\* submitted; the platform takes it or the call raises.
FitSubmit ==
  /\ phase = "ready"
  /\ CurCell = "fit"
  /\ nb \in TrainingNotebooks
  /\ submissions' = submissions + 1
  /\ request' = [kind |-> "training", estimator |-> k.estimator,
                 inputs |-> FitInputs(nb, k), tuner |-> NoTuner]
  /\ \/ /\ job' = "InProgress"
        /\ phase' = "waiting"
        /\ UNCHANGED <<pc, failed>>
     \/ /\ job' = job
        /\ Raise("fit")
  /\ UNCHANGED <<envVars, dockerVars, objects, todo, nb, k, sh, campaign, statusRead,
                 logLine, metric>>

\* The platform ends the training job; it can complete only with an image
\* it can pull.
TrainingJobEnds ==
  /\ job = "InProgress"
  /\ \/ /\ request.estimator.image_name \in registry
        /\ job' = "Completed"
     \/ job' = "Failed"
  /\ UNCHANGED <<envVars, dockerVars, objects, todo, nb, pc, phase, k, sh,
                 submissions, request, campaign, statusRead, failed, logLine, metric>>

\* The fit cell that catches the failure of the job and submits it once more.
FitReturnRetries ==
  /\ phase = "waiting"
  /\ job \in {"Completed", "Failed"}
  /\ \/ /\ job = "Completed"
        /\ Advance
        /\ UNCHANGED <<failed, platformVars>>
     \/ /\ job = "Failed"
        /\ submissions >= 2
        /\ Raise("fit")
        /\ UNCHANGED platformVars
     \/ /\ job = "Failed"
        /\ submissions < 2
        /\ submissions' = submissions + 1
        /\ job' = "InProgress"
        /\ UNCHANGED <<pc, phase, failed, request, campaign, statusRead, logLine, metric>>
  /\ UNCHANGED <<envVars, dockerVars, objects, todo, nb, k, sh>>

\* estimator.fit(...), second half: the call waits for the job and raises
\* when the job failed.
FitReturn ==
  /\ phase = "waiting"
  /\ job \in {"Completed", "Failed"}
  /\ \/ /\ job = "Completed"
        /\ Advance
        /\ UNCHANGED failed
     \/ /\ job = "Failed"
        /\ Raise("fit")
  /\ UNCHANGED <<envVars, dockerVars, objects, todo, nb, k, sh, platformVars>>

\* The fit cell that returns without the tuning job having been created.
TunerFitDetached ==
  /\ phase = "ready"
  /\ CurCell = "fit"
  /\ nb \in TuningNotebooks
  /\ submissions' = submissions + 1
  /\ request' = [kind |-> "tuning", estimator |-> k.estimator,
                 inputs |-> FitInputs(nb, k), tuner |-> k.tuner]
  /\ \/ /\ campaign' = campaign
        /\ Advance
        /\ UNCHANGED failed
     \/ /\ campaign' = campaign
        /\ Raise("fit")
  /\ UNCHANGED <<envVars, dockerVars, objects, todo, nb, k, sh, job, statusRead,
                 logLine, metric>>

\* tuner.fit(inputs=...): the tuning job is submitted and the call returns.
TunerFit ==
  /\ phase = "ready"
  /\ CurCell = "fit"
  /\ nb \in TuningNotebooks
  /\ submissions' = submissions + 1
  /\ request' = [kind |-> "tuning", estimator |-> k.estimator,
                 inputs |-> FitInputs(nb, k), tuner |-> k.tuner]
  /\ \/ /\ campaign' = [NoCampaign EXCEPT !.status = "InProgress"]
        /\ Advance
        /\ UNCHANGED failed
     \/ /\ campaign' = campaign
        /\ Raise("fit")
  /\ UNCHANGED <<envVars, dockerVars, objects, todo, nb, k, sh, job, statusRead,
                 logLine, metric>>

\* The platform starts one more training job of the campaign, within the
\* submitted limits.
CampaignStartsJob ==
  /\ campaign.status = "InProgress"
  /\ campaign.started < request.tuner.max_jobs
  /\ campaign.running < request.tuner.max_parallel_jobs
  /\ campaign' = [campaign EXCEPT !.started = @ + 1, !.running = @ + 1]
  /\ UNCHANGED <<envVars, dockerVars, objects, todo, nb, pc, phase, k, sh,
                 submissions, request, job, statusRead, failed, logLine, metric>>

\* One running training job of the campaign ends.
CampaignJobEnds ==
  /\ campaign.status = "InProgress"
  /\ campaign.running > 0
  /\ campaign' = [campaign EXCEPT !.running = @ - 1]
  /\ UNCHANGED <<envVars, dockerVars, objects, todo, nb, pc, phase, k, sh,
                 submissions, request, job, statusRead, failed, logLine, metric>>

\* The campaign ends when none of its jobs runs: completed when all its jobs
\* ran on an image the platform can pull, failed otherwise.
CampaignEnds ==
  /\ campaign.status = "InProgress"
  /\ campaign.running = 0
  /\ \/ /\ campaign.started = request.tuner.max_jobs
        /\ request.estimator.image_name \in registry
        /\ campaign' = [campaign EXCEPT !.status = "Completed"]
     \/ campaign' = [campaign EXCEPT !.status = "Failed"]
  /\ UNCHANGED <<envVars, dockerVars, objects, todo, nb, pc, phase, k, sh,
                 submissions, request, job, statusRead, failed, logLine, metric>>

\* The status cell that shows the status its text expects in place of the
\* status it was given.
StatusCellAssumes ==
  /\ phase = "ready"
  /\ CurCell = "status"
  /\ \/ /\ statusRead' = "InProgress"
        /\ Advance
        /\ UNCHANGED failed
     \/ /\ statusRead' = statusRead
        /\ Raise("describe_hyper_parameter_tuning_job")
  /\ UNCHANGED <<envVars, dockerVars, objects, todo, nb, k, sh, submissions,
                 request, job, campaign, logLine, metric>>

\* The status cell that stops the tuning job it looks at.
StatusCellStops ==
  /\ phase = "ready"
  /\ CurCell = "status"
  /\ \/ /\ statusRead' = campaign.status
        /\ campaign' = [campaign EXCEPT !.status = "Stopped"]
        /\ Advance
        /\ UNCHANGED failed
     \/ /\ statusRead' = statusRead
        /\ campaign' = campaign
        /\ Raise("describe_hyper_parameter_tuning_job")
  /\ UNCHANGED <<envVars, dockerVars, objects, todo, nb, k, sh, submissions,
                 request, job, logLine, metric>>

\* boto3.client('sagemaker').describe_hyper_parameter_tuning_job(...)
\* ['HyperParameterTuningJobStatus']: the status is read and displayed.
StatusCell ==
  /\ phase = "ready"
  /\ CurCell = "status"
  /\ \/ /\ statusRead' = campaign.status
        /\ Advance
        /\ UNCHANGED failed
     \/ /\ statusRead' = statusRead
        /\ Raise("describe_hyper_parameter_tuning_job")
  /\ UNCHANGED <<envVars, dockerVars, objects, todo, nb, k, sh, submissions,
                 request, job, campaign, logLine, metric>>

(***************************************************************************)
(* The build-and-push %%sh cells, one command at a time                    *)
(***************************************************************************)

\* The commands of the script, in file order.  'create' is the body of the
\* 'if [ $? -ne 0 ]' that follows 'describe'.
Script(n) ==
  CASE n = "mxnet_gcmc" ->
         <<"account=", "echo", "region=", "docker_name=", "login_public", "build",
           "login_private", "fullname=", "describe", "create", "tag", "push">>
    [] n = "kge_mxnet" ->
         <<"docker_name=", "login_public", "build", "account=", "echo", "region=",
           "login_private", "fullname=", "describe", "create", "tag", "push">>
    [] n = "pytorch-gcn-tox21" ->
         <<"default_docker_name=", "pull", "docker_name=", "build", "account=",
           "echo", "region=", "region_default", "fullname=", "describe", "create",
           "login_private", "tag", "push">>
    [] OTHER -> <<>>

\* docker_name=... of the script
ShDockerName(n) ==
  CASE n = "mxnet_gcmc" -> <<"sagemaker-dgl-gcmc">>
    [] n = "kge_mxnet" -> <<"sagemaker-dgl-kge-mxnet">>
    [] OTHER -> <<"sagemaker-dgl-pytorch-gcn-tox21">>

\* "${account}.dkr.ecr.${region}.amazonaws.com/${docker_name}:latest"
FullnameTemplate ==
  <<"${account}", ".", "d", "k", "r", ".", "e", "c", "r", ".", "${region}", ".", "a", "m", "a", "z", "o", "n", "a", "w", "s", ".", "c", "o", "m", "/", "${docker_name}", ":", "l", "a", "t", "e", "s", "t">>

\* Parameter expansion inside double quotes: ${name} becomes the variable's
\* value, the empty text when it is unset.
RECURSIVE ShExpand(_, _, _)
ShExpand(tmpl, i, shell) ==
  IF i > Len(tmpl) THEN <<>>
  ELSE (CASE tmpl[i] = "${account}" -> shell.account
          [] tmpl[i] = "${region}" -> shell.region
          [] tmpl[i] = "${docker_name}" -> shell.docker_name
          [] OTHER -> <<tmpl[i]>>) \o ShExpand(tmpl, i + 1, shell)

Cmd == IF phase = "shell" /\ sh.pc <= Len(Script(nb)) THEN Script(nb)[sh.pc] ELSE None

ShFrame == UNCHANGED <<envVars, objects, todo, nb, pc, phase, k, platformVars, failed>>

\* The cell magic starts the script.
BuildCellStarts ==
  /\ phase = "ready"
  /\ CurCell = "build"
  /\ phase' = "shell"
  /\ sh' = [NoShell EXCEPT !.pc = 1]
  /\ UNCHANGED <<envVars, dockerVars, objects, todo, nb, pc, k, platformVars, failed>>

\* 'Get DGL Docker Image (Optional)': the tox21 build cell may be left out.
BuildCellSkipped ==
  /\ phase = "ready"
  /\ CurCell = "build"
  /\ nb = "pytorch-gcn-tox21"
  /\ Advance
  /\ UNCHANGED <<envVars, dockerVars, objects, todo, nb, k, sh, platformVars, failed>>

\* default_docker_name=..., echo $account
ShLocal ==
  /\ Cmd \in {"default_docker_name=", "echo"}
  /\ sh' = [sh EXCEPT !.pc = @ + 1, !.status = 0]
  /\ UNCHANGED dockerVars
  /\ ShFrame

\* docker_name=...
ShSetDockerName ==
  /\ Cmd = "docker_name="
  /\ sh' = [sh EXCEPT !.pc = @ + 1, !.status = 0, !.docker_name = ShDockerName(nb)]
  /\ UNCHANGED dockerVars
  /\ ShFrame

\* docker pull $default_docker_name
ShPull ==
  /\ Cmd = "pull"
  /\ \E st \in {0, 1} : sh' = [sh EXCEPT !.pc = @ + 1, !.status = st]
  /\ UNCHANGED dockerVars
  /\ ShFrame

\* account=$(aws sts get-caller-identity --query Account --output text)
ShGetAccount ==
  /\ Cmd = "account="
  /\ \/ sh' = [sh EXCEPT !.pc = @ + 1, !.status = 0, !.account = account]
     \/ sh' = [sh EXCEPT !.pc = @ + 1, !.status = 1, !.account = <<>>]
  /\ UNCHANGED dockerVars
  /\ ShFrame

\* region=$(aws configure get region)
ShGetRegion ==
  /\ Cmd = "region="
  /\ sh' = [sh EXCEPT !.pc = @ + 1, !.region = cliRegion,
                      !.status = IF cliRegion = <<>> THEN 1 ELSE 0]
  /\ UNCHANGED dockerVars
  /\ ShFrame

\* region=${region:-us-east-2}
ShRegionDefault ==
  /\ Cmd = "region_default"
  /\ sh' = [sh EXCEPT !.pc = @ + 1, !.status = 0,
                      !.region = IF sh.region = <<>> THEN UsEast2 ELSE sh.region]
  /\ UNCHANGED dockerVars
  /\ ShFrame

\* $(aws ecr get-login --no-include-email --region ${region} --registry-ids 763104351884)
ShLoginPublic ==
  /\ Cmd = "login_public"
  /\ \/ /\ sh.region # <<>>
        /\ sh' = [sh EXCEPT !.pc = @ + 1, !.status = 0]
     \/ sh' = [sh EXCEPT !.pc = @ + 1, !.status = 1]
  /\ UNCHANGED dockerVars
  /\ ShFrame

\* docker build -t $docker_name -f <Dockerfile> .
ShBuild ==
  /\ Cmd = "build"
  /\ \/ /\ sh' = [sh EXCEPT !.pc = @ + 1, !.status = 0, !.build = "ok"]
        /\ localImages' = localImages \cup {sh.docker_name}
     \/ /\ sh' = [sh EXCEPT !.pc = @ + 1, !.status = 1, !.build = "failed"]
        /\ localImages' = localImages
  /\ UNCHANGED <<repos, registry, logins, pushed>>
  /\ ShFrame

\* $(aws ecr get-login --region ${region} --no-include-email)
ShLoginPrivate ==
  /\ Cmd = "login_private"
  /\ \/ /\ sh.region # <<>>
        /\ sh' = [sh EXCEPT !.pc = @ + 1, !.status = 0]
        /\ logins' = logins \cup {sh.region}
     \/ /\ sh' = [sh EXCEPT !.pc = @ + 1, !.status = 1]
        /\ logins' = logins
  /\ UNCHANGED <<repos, registry, localImages, pushed>>
  /\ ShFrame

\* fullname="${account}.dkr.ecr.${region}.amazonaws.com/${docker_name}:latest"
ShSetFullname ==
  /\ Cmd = "fullname="
  /\ sh' = [sh EXCEPT !.pc = @ + 1, !.status = 0,
                      !.fullname = ShExpand(FullnameTemplate, 1, sh)]
  /\ UNCHANGED dockerVars
  /\ ShFrame

\* What runs after describe-repositories when nothing is tested: the next
\* command of the file, repository or not.
AfterDescribeUnconditional(status) == 1

\* The test written with -eq: create-repository when describe-repositories
\* succeeded, past it when it failed.
AfterDescribeInverted(status) == IF status # 0 THEN 2 ELSE 1

\* if [ $? -ne 0 ] then ... fi: how many commands on from describe-repositories
\* the script continues: with create-repository when describe-repositories
\* failed, past it otherwise.
AfterDescribe(status) == IF status # 0 THEN 1 ELSE 2

\* aws ecr describe-repositories --repository-names "${docker_name}"
\* (in the region of the command line's configuration), and the test of $?
ShDescribe ==
  /\ Cmd = "describe"
  /\ \/ /\ cliRegion # <<>>
        /\ <<cliRegion, sh.docker_name>> \in repos
        /\ sh' = [sh EXCEPT !.pc = @ + AfterDescribe(0), !.status = 0]
     \/ sh' = [sh EXCEPT !.pc = @ + AfterDescribe(1), !.status = 1]
  /\ UNCHANGED dockerVars
  /\ ShFrame

\* aws ecr create-repository --repository-name "${docker_name}"
ShCreate ==
  /\ Cmd = "create"
  /\ \/ /\ cliRegion # <<>>
        /\ <<cliRegion, sh.docker_name>> \notin repos
        /\ sh' = [sh EXCEPT !.pc = @ + 1, !.status = 0, !.create = "ok"]
        /\ repos' = repos \cup {<<cliRegion, sh.docker_name>>}
     \/ /\ sh' = [sh EXCEPT !.pc = @ + 1, !.status = 1, !.create = "failed"]
        /\ repos' = repos
  /\ UNCHANGED <<registry, localImages, logins, pushed>>
  /\ ShFrame

\* docker tag ${docker_name} ${fullname}
ShTag ==
  /\ Cmd = "tag"
  /\ IF sh.docker_name \in localImages /\ sh.account # <<>> /\ sh.region # <<>>
     THEN /\ sh' = [sh EXCEPT !.pc = @ + 1, !.status = 0]
          /\ localImages' = localImages \cup {sh.fullname}
     ELSE /\ sh' = [sh EXCEPT !.pc = @ + 1, !.status = 1]
          /\ localImages' = localImages
  /\ UNCHANGED <<repos, registry, logins, pushed>>
  /\ ShFrame

\* The push of the image under the session's reference in place of fullname.
ShPushOther ==
  /\ Cmd = "push"
  /\ \/ /\ sh.fullname \in localImages
        /\ sh' = [sh EXCEPT !.pc = @ + 1, !.status = 0]
        /\ registry' = registry \cup {Image(nb, account, sessRegion)}
        /\ pushed' = pushed \cup {sh.fullname}
     \/ /\ sh' = [sh EXCEPT !.pc = @ + 1, !.status = 1]
        /\ UNCHANGED <<registry, pushed>>
  /\ UNCHANGED <<repos, localImages, logins>>
  /\ ShFrame

\* docker push ${fullname}
ShPush ==
  /\ Cmd = "push"
  /\ \/ /\ sh.fullname \in localImages
        /\ sh.region \in logins
        /\ <<sh.region, sh.docker_name>> \in repos
        /\ sh' = [sh EXCEPT !.pc = @ + 1, !.status = 0]
        /\ registry' = registry \cup {sh.fullname}
        /\ pushed' = pushed \cup {sh.fullname}
     \/ /\ sh' = [sh EXCEPT !.pc = @ + 1, !.status = 1]
        /\ UNCHANGED <<registry, pushed>>
  /\ UNCHANGED <<repos, localImages, logins>>
  /\ ShFrame

\* The script is through; its exit status is that of its last command.  The
\* cell magic of some IPython versions raises CalledProcessError on a
\* non-zero status, that of others does not.
BuildCellEnds ==
  /\ phase = "shell"
  /\ sh.pc > Len(Script(nb))
  /\ sh' = NoShell
  /\ \/ /\ Advance
        /\ UNCHANGED failed
     \/ /\ sh.status # 0
        /\ Raise("sh")
  /\ UNCHANGED <<envVars, dockerVars, objects, todo, nb, k, platformVars>>

Next ==
  \/ OpenNotebook
  \/ LocalCell
  \/ SetupCell
  \/ BuildCellStarts
  \/ BuildCellSkipped
  \/ ShLocal
  \/ ShSetDockerName
  \/ ShPull
  \/ ShGetAccount
  \/ ShGetRegion
  \/ ShRegionDefault
  \/ ShLoginPublic
  \/ ShBuild
  \/ ShLoginPrivate
  \/ ShSetFullname
  \/ ShDescribe
  \/ ShCreate
  \/ ShTag
  \/ ShPush
  \/ BuildCellEnds
  \/ EstimatorCell
  \/ RangesCell
  \/ MetricCell
  \/ TunerCell
  \/ FitSubmit
  \/ TrainingJobEnds
  \/ FitReturn
  \/ TunerFit
  \/ CampaignStartsJob
  \/ CampaignJobEnds
  \/ CampaignEnds
  \/ StatusCell

Spec == Init /\ [][Next]_vars

\* The platform works on its own: a campaign that can start a job, end a job
\* or end does so eventually.  The notebook gets no fairness: it may be left
\* or closed at any cell.
PlatformFairness ==
  /\ WF_vars(CampaignStartsJob)
  /\ WF_vars(CampaignJobEnds)
  /\ WF_vars(CampaignEnds)

SpecLive == Spec /\ PlatformFairness

(***************************************************************************)
(* Metric extraction on its own: a training job of the campaign of a       *)
(* tuning notebook has written a log line, the platform runs the           *)
(* notebook's metric regex on it.                                          *)
(***************************************************************************)

InitMetric ==
  /\ InitWith({<<>>})
  /\ nb \in TuningNotebooks
  /\ logLine \in LogLines(nb)

Scrape ==
  /\ phase = "idle"
  /\ nb \in TuningNotebooks
  /\ metric' = [line |-> logLine, group |-> Search(MetricDefinitions(nb).Regex, logLine)]
  /\ UNCHANGED <<envVars, dockerVars, objects, todo, nb, pc, phase, k, sh, submissions,
                 request, job, campaign, statusRead, failed, logLine>>

NextMetric == Scrape

SpecMetric == InitMetric /\ [][NextMetric]_vars

\* The same machine over sessions of one or two notebooks.
SpecSession == InitSession /\ [][Next]_vars

(***************************************************************************)
(* Properties                                                              *)
(***************************************************************************)

\* Index of the fit cell of notebook n.
FitIndex(n) == CHOOSE i \in DOMAIN Cells(n) : Cells(n)[i] = "fit"

BeforeFit ==
  \/ pc < FitIndex(nb)
  \/ pc = FitIndex(nb) /\ phase = "ready"

AfterFit ==
  \/ pc > FitIndex(nb)
  \/ pc = FitIndex(nb) /\ phase = "waiting"
  \/ pc = FitIndex(nb) /\ phase = "error" /\ failed = "fit"

\* C1: in a run of a training notebook the number of submitted training jobs
\* is 0 until the fit cell runs, 1 once it has run, and never more than 1.
C1_ExactlyOneSubmission ==
  nb \in TrainingNotebooks =>
    /\ submissions <= 1
    /\ BeforeFit => submissions = 0
    /\ AfterFit => submissions = 1

C1_Witness == nb \in TrainingNotebooks /\ phase = "done" /\ submissions = 1 /\ job = "Completed"

Latest == <<"l", "a", "t", "e", "s", "t">>

\* C2: the image reference of the estimator cell is account + '.dkr.ecr.' +
\* region + '.amazonaws.com/' + repository + ':' + tag, the tag being
\* 'latest' in the notebooks that give none.
C2_ImageReferenceForm ==
  "image" \in k.names =>
    k.image = account \o <<".", "d", "k", "r", ".", "e", "c", "r", ".">> \o sessRegion
                \o <<".", "a", "m", "a", "z", "o", "n", "a", "w", "s", ".", "c", "o", "m", "/">>
                \o DockerName(nb) \o <<":">>
                \o (IF nb \in {"mxnet_gcmc", "kge_mxnet", "pytorch-gcn-tox21",
                               "pytorch-gcn-tox21-hypertune"}
                    THEN Latest ELSE DockerTag(nb))

C2_Witness ==
  /\ "image" \in k.names
  /\ nb = "mxnet_gcmc"
  /\ account = <<"4444", "5555", "6666">>
  /\ k.image[Len(k.image)] = "t"

C4_ParallelAtMostTotal ==
  /\ "tuner" \in k.names => k.tuner.max_parallel_jobs <= k.tuner.max_jobs
  /\ request.kind = "tuning" => request.tuner.max_parallel_jobs <= request.tuner.max_jobs

C4_Witness ==
  /\ nb \in TuningNotebooks
  /\ request.kind = "tuning"
  /\ request.tuner.max_parallel_jobs = 2
  /\ request.tuner.max_jobs = 6

\* The line holds the text 'Test Accuracy <num>%' at position p.
Reported(line, p, num) == StartsWith(line, p, TestAccuracyText \o num \o <<"%">>)

ReportedNumbers == Numbers \cup {<<"7">>}

\* C5: on every log line that contains 'Test Accuracy <number>%' for a
\* decimal number, the metric regex of pytorch_gcn_hypertune matches and its
\* group is exactly the number (of the line's first such text).
C5_TestAccuracyExtracted ==
  nb = "pytorch_gcn_hypertune" =>
    \A p \in 1..Len(metric.line) : \A num \in ReportedNumbers :
      ( /\ Reported(metric.line, p, num)
        /\ \A q \in 1..(p - 1) : \A other \in ReportedNumbers :
             ~Reported(metric.line, q, other) )
      => metric.group = num

C5_Witness ==
  /\ nb = "pytorch_gcn_hypertune"
  /\ metric.line = TestAccuracyText \o <<"9", "1", ".", "2", "%">>
  /\ metric.group = <<"9", "1", ".", "2">>

\* C6: a campaign submitted by a tuning notebook was submitted with
\* max_jobs = 6 and max_parallel_jobs = 2, has started at most max_jobs
\* training jobs and runs at most max_parallel_jobs of them at a time.
C6_CampaignWithinLimits ==
  campaign.status # None =>
    /\ request.tuner.max_jobs = 6
    /\ request.tuner.max_parallel_jobs = 2
    /\ campaign.started <= 6
    /\ campaign.running <= 2

C6_Witness ==
  /\ campaign.status = "InProgress"
  /\ campaign.started = 6
  /\ campaign.running = 2

\* C7: when the fit call of the run failed, the run made exactly one
\* submission, stopped in the fit cell with the failure as its outcome, and
\* nothing of the run reads or shows a successful job or campaign.
C7_FailedFitIsFinal ==
  failed = "fit" =>
    /\ submissions = 1
    /\ phase = "error"
    /\ pc = FitIndex(nb)
    /\ job # "Completed"
    /\ job # "InProgress"
    /\ campaign.status = None
    /\ statusRead = None

C7_Witness ==
  /\ failed = "fit"
  /\ nb = "mxnet_gcmc"
  /\ job = "Failed"
  /\ submissions = 1

\* The position the script goes to from its current command when the command
\* succeeds.
OnSuccess == sh.pc + (IF Cmd = "describe" THEN AfterDescribe(0) ELSE 1)

\* A Python call that fails ends its cell and the run where it stands.
ExceptionsPropagate ==
  (failed = None /\ failed' # None) =>
    /\ phase' = "error"
    /\ pc' = pc
    /\ submissions' \in {submissions, submissions + 1}
    /\ UNCHANGED dockerVars

\* C8 as stated: no cell reacts to a failure; a command of a build script
\* that fails is followed by the command that follows it when it succeeds,
\* and a failing Python call ends the run.
C8_NoReactionToFailure ==
  [][/\ (phase = "shell" /\ Cmd # None /\ sh'.status # 0) => sh'.pc = OnSuccess
     /\ ExceptionsPropagate]_vars

\* C8, amended: a failing Python call ends the run; in the build scripts a
\* failing command is followed by the next command of the file, except that
\* create-repository runs exactly when describe-repositories failed, and
\* that pytorch-gcn-tox21 puts us-east-2 for the region that a failed
\* 'aws configure get region' left empty.
C8_OnlyDescribeBranches ==
  [][/\ (phase = "shell" /\ Cmd \notin {None, "describe"}) => sh'.pc = sh.pc + 1
     /\ Cmd = "describe" => (sh'.status # 0 <=> Cmd' = "create")
     /\ Cmd' = "create" => (Cmd = "describe" /\ sh'.status # 0)
     /\ Cmd = "region_default" =>
          sh'.region = (IF sh.region = <<>> THEN UsEast2 ELSE sh.region)
     /\ ExceptionsPropagate]_vars

C8_Witness ==
  /\ phase = "shell"
  /\ Cmd = "create"
  /\ sh.status # 0
  /\ nb = "kge_mxnet"

Tox21Hypertune == "pytorch-gcn-tox21-hypertune"

\* C9 as stated, its particular case: the image that pytorch-gcn-tox21-hypertune
\* submits is in the registry, whatever ran before.
C9_ImageExistsWithoutBuild ==
  (nb = Tox21Hypertune /\ request.kind = "tuning") =>
    request.estimator.image_name \in registry

\* C9, amended: the registry gains an image only by the docker push of a
\* build notebook, and the image it gains is the script's fullname; a run of
\* pytorch-gcn-tox21-hypertune adds nothing, so the image it submits is in
\* the registry only if it was there when the notebook was opened.
C9_ImageOnlyFromBuildNotebook ==
  [][/\ registry' # registry =>
          /\ phase = "shell"
          /\ Cmd = "push"
          /\ nb \in BuildNotebooks
          /\ registry' = registry \cup {sh.fullname}
     /\ nb' = Tox21Hypertune => registry' = registry]_vars

C9_Witness ==
  /\ nb = Tox21Hypertune
  /\ request.kind = "tuning"
  /\ request.estimator.image_name \in pushed
  /\ campaign.status = "Completed"

\* C10: the fit call of mxnet_gcn, pytorch_gcn, mxnet_gcmc and kge_mxnet
\* passes exactly the input channel 'training-code'.
C10_TrainingCodeChannel ==
  (nb \in {"mxnet_gcn", "pytorch_gcn", "mxnet_gcmc", "kge_mxnet"} /\ request.kind = "training") =>
    DOMAIN request.inputs = {"training-code"}

\* The script the container's train script is to run: CODE_ENTRY of
\* mxnet_gcmc, CODE_PATH of the tox21 notebooks.
EntryScript(n) == IF EntryPoint(n) # None THEN EntryPoint(n) ELSE UploadPath(n)

\* C11: the job that mxnet_gcmc and pytorch-gcn-tox21 submit names the entry
\* script (in a hyperparameter, or as the estimator's entry_point) and has an
\* input channel 'training-code' whose location is the uploaded script.
C11_EntryScriptInChannel ==
  (nb \in {"mxnet_gcmc", "pytorch-gcn-tox21"} /\ request.kind = "training") =>
    /\ \/ \E key \in DOMAIN request.estimator.hyperparameters :
            request.estimator.hyperparameters[key] = HV("str", EntryScript(nb))
       \/ request.estimator.entry_point = EntryScript(nb)
    /\ "training-code" \in DOMAIN request.inputs
    /\ request.inputs["training-code"] \in objects
    /\ request.inputs["training-code"]
         = UploadLocation(EntryScript(nb), DefaultBucket(account, sessRegion))

\* C12: from the construction of the tuner to its submission the objective
\* direction is 'Maximize', in both tuning notebooks.
C12_DirectionMaximize ==
  /\ "tuner" \in k.names => k.tuner.objective_type = "Maximize"
  /\ request.kind = "tuning" => request.tuner.objective_type = "Maximize"

C12_Witness ==
  /\ nb = Tox21Hypertune
  /\ "tuner" \in k.names
  /\ request.kind = "tuning"
  /\ request.tuner.objective_type = "Maximize"
  /\ campaign.status = "InProgress"

\* The training notebook a tuning notebook goes with; a training notebook
\* goes with itself.
TrainingNotebookOf(n) ==
  CASE n = "pytorch_gcn_hypertune" -> "pytorch_gcn"
    [] n = Tox21Hypertune -> "pytorch-gcn-tox21"
    [] OTHER -> n

\* The job configuration an estimator holds.
JobConfig(e) ==
  [image_name |-> e.image_name,
   train_instance_count |-> e.train_instance_count,
   train_instance_type |-> e.train_instance_type,
   hyperparameters |-> e.hyperparameters]

\* The job configuration the estimator cell of notebook n constructs.
JobConfigOf(n) == JobConfig(MakeEstimator(n, Image(n, account, sessRegion), Params(n)))

\* C13: what pytorch_gcn and pytorch_gcn_hypertune submit, and what
\* pytorch-gcn-tox21 and pytorch-gcn-tox21-hypertune submit, carries the job
\* configuration of the training notebook of the pair (image reference,
\* instance count, instance type, hyperparameters), for the same account and
\* region.
C13_TunerWrapsTrainingConfig ==
  (/\ nb \in {"pytorch_gcn", "pytorch_gcn_hypertune", "pytorch-gcn-tox21", Tox21Hypertune}
   /\ request.kind # None)
    => JobConfig(request.estimator) = JobConfigOf(TrainingNotebookOf(nb))

C13_Witness ==
  /\ nb = "pytorch_gcn_hypertune"
  /\ request.kind = "tuning"
  /\ account = <<"4444", "5555", "6666">>
  /\ JobConfig(request.estimator) = JobConfigOf("pytorch_gcn")
  /\ request.estimator.hyperparameters["dataset"] = HV("str", "cora")
  /\ request.estimator.train_instance_count = 1

\* A step of the notebook: a cell or a command of a script moves the run on.
NotebookStep == <<nb, pc, phase, k, sh, statusRead, failed>>' # <<nb, pc, phase, k, sh, statusRead, failed>>

\* C14: once submitted, the job configuration is not changed by any step of
\* the run; the status cell changes neither the configuration nor the status
\* of the job or campaign, it only reads the status; and a status that
\* exists is never changed by a step of the notebook.
C14_ReadOnlyAfterSubmission ==
  [][/\ (request.kind # None /\ nb' = nb) => request' = request
     /\ (phase = "ready" /\ CurCell = "status" /\ NotebookStep) =>
          /\ UNCHANGED <<request, job, campaign>>
          /\ statusRead' \in {statusRead, campaign.status}
     /\ (nb' = nb /\ job # None /\ job' # job) => ~NotebookStep
     /\ (nb' = nb /\ campaign.status # None /\ campaign' # campaign) => ~NotebookStep]_vars

C14_Witness ==
  /\ nb \in TuningNotebooks
  /\ phase = "done"
  /\ statusRead = "InProgress"
  /\ campaign.status = "Completed"
  /\ request.kind = "tuning"

\* C15 as stated: the status that the status cell reads is InProgress.
C15_StatusReadInProgress == statusRead # None => statusRead = "InProgress"

\* C15, amended: the status cell runs only after tuner.fit has returned
\* without raising, and what it reads is the status the campaign has at that
\* moment: InProgress, or Completed or Failed when the campaign has ended.
C15_StatusReadIsCurrent ==
  [][(nb' = nb /\ statusRead' # statusRead) =>
       /\ nb \in TuningNotebooks
       /\ pc = FitIndex(nb) + 1
       /\ submissions = 1
       /\ request.kind = "tuning"
       /\ failed = None
       /\ campaign.status \in {"InProgress", "Completed", "Failed"}
       /\ statusRead' = campaign.status
       /\ campaign' = campaign]_vars

C15_Witness ==
  /\ nb = "pytorch_gcn_hypertune"
  /\ statusRead = "Failed"
  /\ campaign.status = "Failed"
  /\ phase = "done"

\* C16: once tuner.fit has returned, the campaign reaches a terminal status
\* whatever the notebook does or does not do afterwards, and it has started
\* at most max_jobs training jobs.
C16_CampaignEventuallyEnds ==
  /\ (nb \in TuningNotebooks /\ pc > FitIndex(nb))
       ~> (campaign.status \in {"Completed", "Failed"})
  /\ [](campaign.status # None => campaign.started <= request.tuner.max_jobs)

\* The campaign has ended while the notebook still stands before its status
\* cell.
C16_Witness ==
  /\ nb \in TuningNotebooks
  /\ campaign.status = "Completed"
  /\ campaign.started = 6
  /\ phase = "ready"
  /\ CurCell = "status"
  /\ statusRead = None

\* What the run has done so far is a prefix of: session and role, image
\* reference, estimator, (tuner), fit, (status).
StepsInOrder ==
  /\ "image" \in k.names => {"sess", "bucket", "role"} \subseteq k.names
  /\ "estimator" \in k.names => ("image" \in k.names /\ k.estimator.image_name = k.image)
  /\ "tuner" \in k.names =>
       /\ nb \in TuningNotebooks
       /\ {"estimator", "hyperparameter_ranges", "metric_definitions"} \subseteq k.names
  /\ request.kind # None =>
       /\ "estimator" \in k.names
       /\ request.estimator = k.estimator
       /\ request.estimator = MakeEstimator(nb, Image(nb, account, sessRegion), Params(nb))
  /\ request.kind = "tuning" =>
       /\ "tuner" \in k.names
       /\ request.tuner = k.tuner
       /\ request.tuner.hyperparameter_ranges = HyperparameterRanges(nb)
  /\ statusRead # None => request.kind = "tuning"

\* C17: the cells of a run are executed one at a time in file order, and the
\* steps of the run come in the order session and role, image reference,
\* estimator, (tuner), fit, (status); fit submits a complete configuration.
C17_FixedOrder ==
  [][/\ nb' = nb => pc' \in {pc, pc + 1}
     /\ (nb' = nb /\ pc' = pc + 1) => phase \in {"ready", "shell", "waiting"}
     /\ StepsInOrder']_vars

C17_Witness ==
  /\ nb = "pytorch_gcn_hypertune"
  /\ phase = "done"
  /\ statusRead # None
  /\ {"sess", "image", "estimator", "tuner"} \subseteq k.names
  /\ request.kind = "tuning"

\* C18: in the notebooks that upload their code, what fit submits has the
\* one channel 'training-code', mapped to the location that upload_data
\* returned, and the upload is in storage by then.
C18_ChannelIsUploadLocation ==
  (Uploads(nb) /\ request.kind # None) =>
    /\ "code_location" \in k.names
    /\ k.code_location = UploadLocation(UploadPath(nb), DefaultBucket(account, sessRegion))
    /\ k.code_location \in objects
    /\ DOMAIN request.inputs = {"training-code"}
    /\ request.inputs["training-code"] = k.code_location

C18_Witness ==
  /\ nb = "pytorch-gcn-tox21"
  /\ request.kind = "training"
  /\ request.inputs["training-code"] \in objects
  /\ job = "Completed"
  /\ phase = "done"

\* C19: in the build scripts create-repository runs exactly when
\* describe-repositories failed, and when docker push is up the repository
\* of the image exists in the region of fullname, unless create-repository
\* was run and failed.
C19_RepositoryExistsAtPush ==
  [][/\ Cmd = "describe" => (sh'.status # 0 <=> Cmd' = "create")
     /\ Cmd' = "create" => (Cmd = "describe" /\ sh'.status # 0)
     /\ Cmd = "create" => sh.create = "not run"
     /\ (Cmd' = "push" /\ sh'.create # "failed") =>
          <<sh'.region, sh'.docker_name>> \in repos']_vars

C19_Witness ==
  /\ nb = "mxnet_gcmc"
  /\ Cmd = "push"
  /\ sh.create = "ok"
  /\ <<sh.region, sh.docker_name>> \in repos
  /\ sh.fullname \in localImages

\* C20: in a training notebook, while the submitted training job is in
\* progress the run stands in the fit cell, waiting; the run is past the fit
\* cell only with the job completed, and a failed job leaves it in the fit
\* cell with the error.
C20_FitBlocks ==
  nb \in TrainingNotebooks =>
    /\ job = "InProgress" => (phase = "waiting" /\ pc = FitIndex(nb))
    /\ pc > FitIndex(nb) => job = "Completed"
    /\ job = "Failed" => (pc = FitIndex(nb) /\ phase \in {"waiting", "error"})

C20_Witness ==
  /\ nb = "kge_mxnet"
  /\ job = "InProgress"
  /\ phase = "waiting"
  /\ pc = FitIndex(nb)
  /\ submissions = 1

\* The shell variables a command of the build scripts expands.
Uses(cmd) ==
  CASE cmd \in {"login_public", "login_private"} -> {"region"}
    [] cmd = "echo" -> {"account"}
    [] cmd \in {"build", "describe", "create"} -> {"docker_name"}
    [] cmd = "fullname=" -> {"account", "region", "docker_name"}
    [] cmd = "tag" -> {"docker_name", "fullname"}
    [] cmd = "push" -> {"fullname"}
    [] OTHER -> {}

\* The shell variable a command of the build scripts assigns.
Assigns(cmd) ==
  CASE cmd = "account=" -> {"account"}
    [] cmd \in {"region=", "region_default"} -> {"region"}
    [] cmd = "docker_name=" -> {"docker_name"}
    [] cmd = "fullname=" -> {"fullname"}
    [] OTHER -> {}

\* The variables assigned by the commands of the script before position i;
\* 'create' is skipped by some runs and assigns nothing.
AssignedBefore(n, i) ==
  UNION {Assigns(Script(n)[j]) : j \in 1..(i - 1)}

\* The value of a shell variable.
ShValue(v) ==
  CASE v = "account" -> sh.account
    [] v = "region" -> sh.region
    [] v = "docker_name" -> sh.docker_name
    [] OTHER -> sh.fullname

\* C21: every command of a build script finds the variables it expands
\* assigned by an earlier command of the script, and not empty.
C21_AssignedBeforeUse ==
  (phase = "shell" /\ Cmd # None) =>
    \A v \in Uses(Cmd) :
      /\ v \in AssignedBefore(nb, sh.pc)
      /\ ShValue(v) # <<>>

\* C22: when docker push is up in a build script (the account having been
\* read), the reference it pushes is the reference the estimator cell of the
\* notebook forms for the same account, whatever the region configuration.
C22_PushedIsSubmitted ==
  (phase = "shell" /\ Cmd = "push" /\ sh.account # <<>>) =>
    sh.fullname = Image(nb, account, sessRegion)

\* C23: docker tag and docker push of a build script are up only in runs of
\* the script in which its docker build succeeded.
C23_NoPushAfterFailedBuild ==
  (phase = "shell" /\ Cmd \in {"tag", "push"}) => sh.build = "ok"

====
